---- MODULE Spec2Model ----
(***************************************************************************)
(* A state-machine model of rtc::impl::Track (src/impl/track.cpp): the     *)
(* negotiated description, the closed flag, the attached media handler,    *)
(* the weakly held transport, the inbound queue and the threads that call  *)
(* into the Track.  Every public method is split at its accesses to shared *)
(* state (the atomic flag, the state mutex, the queue's own mutex), so the *)
(* interleavings of concurrent callers are the ones the code allows.       *)
(***************************************************************************)
EXTENDS Integers, Sequences, FiniteSets, TLC

\* ------------------------------------------------------------------ bounds
\* Number of calls the threads start in one behaviour of the life-cycle,
\* sending, direction, description and queue specifications.
MaxCalls == 3
MaxSendCalls == 3
MaxGateCalls == 2
MaxDescCalls == 2
MaxQueueCalls == 4
\* Capacity of the inbound queue in bytes (scaled down from the library value).
RECV_QUEUE_LIMIT == 16
\* Highest extension id an offered description uses.
MaxUsedExtId == 2
MaxTagCalls == 2
MaxCallbackCalls == 2

\* ------------------------------------------------------- program constants
\* One-byte header extension ids are 1..14.
MaxExtId == 14
\* DSCP markings set by transportSend.
DscpAudio == 46
DscpVideo == 36

\* The network thread delivers inbound packets; application threads do the rest.
Threads == {"net", "app1", "app2"}
AppThreads == {"app1", "app2"}
Directions == {"SendOnly", "RecvOnly", "SendRecv", "Inactive"}
NoHandler == "none"
Handlers == {"h1"}
NoExtId == 0
sdesMidExtUri == "urn:ietf:params:rtp-hdrext:sdes:mid"
OtherUris == {"urn:ietf:params:rtp-hdrext:toffset", "urn:3gpp:video-orientation"}
Mids == {"0", "1"}

\* ----------------------------------------------------------------- packets
\* A 12-byte RTP fixed header (version 2, payload type 96) and one payload byte.
RtpBytes == <<128, 96, 0, 1, 0, 0, 0, 1, 0, 0, 0, 1, 7>>
\* An 8-byte RTCP packet (version 2, packet type 200).
RtcpBytes == <<128, 200, 0, 1, 0, 0, 0, 1>>

\* What a caller may hand to incoming() or outgoing(): an RTP data packet, an
\* RTCP packet tagged Control, and an RTCP packet that arrives tagged Binary.
PacketInputs ==
    { [type |-> "Binary", data |-> RtpBytes, dscp |-> 0],
      [type |-> "Control", data |-> RtcpBytes, dscp |-> 0],
      [type |-> "Binary", data |-> RtcpBytes, dscp |-> 0] }

NoMsg == [id |-> 0, type |-> "Null", data |-> <<>>, dscp |-> 0]

\* RFC 5761 demultiplexing: payload type (low 7 bits of byte 2) in 64..95.
IsRtcp(m) ==
    /\ Len(m.data) >= 8
    /\ (m.data[2] % 128) >= 64
    /\ (m.data[2] % 128) <= 95

\* ------------------------------------------------------------- description
\* Description::Media::findExtId: the id mapped to uri, or none.
findExtId(desc, uri) ==
    IF \E i \in DOMAIN desc.extMap : desc.extMap[i] = uri
    THEN CHOOSE i \in DOMAIN desc.extMap :
            /\ desc.extMap[i] = uri
            /\ \A j \in DOMAIN desc.extMap : desc.extMap[j] = uri => i <= j
    ELSE NoExtId

\* Description::Media::nextExtId: the lowest id of 1..14 that desc does not use.
nextExtId(desc) ==
    LET free == (1..MaxExtId) \ DOMAIN desc.extMap
    IN  IF free = {} THEN NoExtId
        ELSE CHOOSE i \in free : \A j \in free : i <= j

\* Description::Media::addExtMap: the table is keyed by id.
addExtMap(desc, id, uri) ==
    IF id \in DOMAIN desc.extMap THEN desc
    ELSE [desc EXCEPT !.extMap =
            [i \in (DOMAIN desc.extMap) \cup {id} |->
                IF i = id THEN uri ELSE desc.extMap[i]]]

\* The extension tables a negotiated description may carry: ids 1..MaxUsedExtId,
\* each unused or mapped to a URI, no URI mapped twice.
ExtMaps ==
    { m \in UNION { [D -> {sdesMidExtUri} \cup OtherUris] : D \in SUBSET (1..MaxUsedExtId) } :
        \A i, j \in DOMAIN m : m[i] = m[j] => i = j }

Descriptions ==
    [mid : Mids, direction : Directions, type : {"audio", "video"}, extMap : ExtMaps]

\* ------------------------------------------------------------------- state
VARIABLES
    mIsClosed,            \* std::atomic<bool>
    mMediaDescription,    \* guarded by mMutex
    mSdesMidExtId,        \* optional<int>, NoExtId when empty
    mMediaHandler,        \* guarded by mMutex
    mDtlsSrtpTransport,   \* weak_ptr: "none", "live" or "expired"
    callbacks,            \* which application callbacks are registered
    mRecvQueue,           \* the queue's elements (message ids), front first
    mAmount,              \* the queue's accumulated weight
    heap,                 \* the Message each message_ptr points to
    badDirection,         \* COUNTER_MEDIA_BAD_DIRECTION
    queueFull,            \* COUNTER_QUEUE_FULL
    notified,             \* per handler, the description of its last media() call
    calls,                \* number of calls started so far
    callBudget,           \* number of calls a behaviour may start
    th,                   \* per thread: position in its current call and locals
    last,                 \* the frame of the call that returned last
    closedTriggered,      \* history: number of triggerClosed() invocations
    closedBy,             \* history: the call whose exchange moved the flag, the call that fired
    closeReturned,        \* history: some close() call has returned
    lateEvents,           \* history: open/available delivered with the flag set,
                          \*          and delivered after a close() returned
    admitted,             \* history: messages pushed, in push order
    returned              \* history: messages popped by receive(), in pop order

vars == <<mIsClosed, mMediaDescription, mSdesMidExtId, mMediaHandler,
          mDtlsSrtpTransport, callbacks, mRecvQueue, mAmount, heap, badDirection,
          queueFull, notified, calls, callBudget, th, last, closedTriggered, closedBy, closeReturned,
          lateEvents, admitted, returned>>

descVars == <<mMediaDescription, mSdesMidExtId>>
queueVars == <<mRecvQueue, mAmount, admitted, returned>>
closeHist == <<closedTriggered, closedBy, closeReturned>>

NoDesc == [mid |-> "", direction |-> "Inactive", type |-> "", extMap |-> <<>>]

\* The locals of a thread that is in no call.
IdleFrame ==
    [pc |-> "idle", op |-> "none", call |-> 0, msg |-> 0, dir |-> "none",
     type |-> "none", kind |-> "none", input |-> NoDesc,
     handler |-> NoHandler, batch |-> <<>>, ret |-> "none", val |-> NoMsg,
     desc |-> NoDesc, fx |-> {}, sent |-> <<>>, closedAtStart |-> FALSE,
     rtcpNoHandler |-> FALSE, held |-> "none", sawTransport |-> "none", extId |-> 0,
     chained |-> <<>>, ok |-> FALSE]

\* A thread starts call number calls + 1 of operation op.
Begin(t, op) ==
    [IdleFrame EXCEPT !.op = op, !.call = calls + 1, !.closedAtStart = mIsClosed]

\* mMutex (std::shared_mutex): a caller takes it shared or exclusive, and waits
\* while another caller holds it in a mode that excludes the one it asks for.
CanLock(t, mode) ==
    /\ th[t].held = "none"
    /\ \A u \in Threads \ {t} :
          th[u].held = "none" \/ (mode = "shared" /\ th[u].held = "shared")

\* std::unique_lock, std::lock_guard ("exclusive") or std::shared_lock ("shared").
Acquire(f, mode) == [f EXCEPT !.held = mode]

\* A caller that leaves the scope of its lock without releasing mMutex.
KeepLock(f) == f

\* The end of the scope of the lock: mMutex is released.
Release(f) == [f EXCEPT !.held = "none"]

\* A block that takes mMutex, runs as one step and releases it at its end.
Scoped(mode, f) == Release(Acquire(f, mode))

\* A thread moves to frame f; a call that returns leaves its frame in last.
Move(t, f) ==
    IF f.pc = "idle"
    THEN th' = [th EXCEPT ![t] = IdleFrame] /\ last' = f
    ELSE th' = [th EXCEPT ![t] = f] /\ last' = last

CanStart(t) == th[t].pc = "idle" /\ calls < callBudget

\* The message ids of a call: the caller's message, and one the handler may add.
MsgId(c) == 2 * c - 1
ExtraId(c) == 2 * c
MostCalls ==
    CHOOSE n \in {MaxCalls, MaxSendCalls, MaxGateCalls, MaxDescCalls, MaxQueueCalls} :
        \A k \in {MaxCalls, MaxSendCalls, MaxGateCalls, MaxDescCalls, MaxQueueCalls} :
            k <= n
MsgIds == 1..(2 * MostCalls)

\* A setDescription() that allocates an id without looking the URI up first.
StoreWithoutLookup(desc) ==
    <<addExtMap(desc, nextExtId(desc), sdesMidExtUri), nextExtId(desc)>>

\* Track::setDescription, lines 59-73: the part under the exclusive lock, as the
\* new <<description, extension id>>.
StoreDescription(desc) ==
    LET found == findExtId(desc, sdesMidExtUri)
        id == IF found = NoExtId THEN nextExtId(desc) ELSE found
        d == IF found = NoExtId THEN addExtMap(desc, id, sdesMidExtUri) ELSE desc
    IN  <<d, id>>

\* Track::Track for an initial description of D: the queue is empty and
\* setDescription(desc) has run.  H and T say what the owner did before the
\* threads start: setMediaHandler(h) for an h of H (the handler was notified
\* of the description) and open(transport) when T holds "live".
InitWith(D, H, T, budget) ==
    /\ \E desc \in D, h \in H :
          /\ mMediaDescription = StoreDescription(desc)[1]
          /\ mSdesMidExtId = StoreDescription(desc)[2]
          /\ mMediaHandler = h
          /\ notified = [k \in Handlers |->
                            IF k = h THEN StoreDescription(desc)[1] ELSE NoDesc]
    /\ mDtlsSrtpTransport \in T
    /\ callBudget = budget
    /\ mIsClosed = FALSE
    /\ callbacks = [open |-> TRUE, closed |-> TRUE, available |-> TRUE]
    /\ mRecvQueue = <<>>
    /\ mAmount = 0
    /\ heap = [i \in MsgIds |-> NoMsg]
    /\ badDirection = 0
    /\ queueFull = 0
    /\ calls = 0
    /\ th = [t \in Threads |-> IdleFrame]
    /\ last = IdleFrame
    /\ closedTriggered = 0
    /\ closedBy = [setter |-> 0, firer |-> 0]
    /\ closeReturned = FALSE
    /\ lateEvents = [whileClosed |-> FALSE, afterClose |-> FALSE]
    /\ admitted = <<>>
    /\ returned = <<>>

\* An event is delivered when its callback is registered; the history notes
\* a delivery that comes after the closed flag was set or a close() returned.
Delivered(registered) ==
    [whileClosed |-> lateEvents.whileClosed \/ (registered /\ mIsClosed),
     afterClose |-> lateEvents.afterClose \/ (registered /\ closeReturned)]

\* ------------------------------------------------------------------- close
\* A close() that stores true without looking at the old value of the flag.
ExchangeIgnored(old) == TRUE

\* Line 83: mIsClosed.exchange(true) decides whether this call fires the event.
ExchangeWins(old) == ~old

CloseExchange(t) ==
    /\ CanStart(t)
    /\ calls' = calls + 1
    /\ mIsClosed' = TRUE
    /\ Move(t, [Begin(t, "close") EXCEPT
                    !.pc = IF ExchangeWins(mIsClosed) THEN "close_trigger"
                           ELSE "close_detach"])
    /\ closedBy' = IF ~mIsClosed THEN [closedBy EXCEPT !.setter = calls + 1]
                   ELSE closedBy
    /\ UNCHANGED <<callBudget, descVars, mMediaHandler, mDtlsSrtpTransport, callbacks, queueVars,
                   heap, badDirection, queueFull, notified, closedTriggered,
                   closeReturned, lateEvents>>

\* Line 84: triggerClosed() invokes the closed callback when one is registered.
CloseTrigger(t) ==
    /\ th[t].pc = "close_trigger"
    /\ closedTriggered' = closedTriggered + 1
    /\ closedBy' = [closedBy EXCEPT !.firer = th[t].call]
    /\ Move(t, [th[t] EXCEPT !.pc = "close_detach",
                        !.fx = @ \cup (IF callbacks.closed THEN {"closed"} ELSE {})])
    /\ UNCHANGED <<callBudget, mIsClosed, descVars, mMediaHandler, mDtlsSrtpTransport, callbacks,
                   queueVars, heap, badDirection, queueFull, notified, calls,
                   closeReturned, lateEvents>>

\* Line 86: setMediaHandler(nullptr); a null handler is not notified.
CloseDetach(t) ==
    /\ th[t].pc = "close_detach"
    /\ CanLock(t, "exclusive")
    /\ mMediaHandler' = NoHandler
    /\ Move(t, Scoped("exclusive", [th[t] EXCEPT !.pc = "close_reset"]))
    /\ UNCHANGED <<callBudget, mIsClosed, descVars, mDtlsSrtpTransport, callbacks, queueVars, heap,
                   badDirection, queueFull, notified, calls, closeHist,
                   lateEvents>>

\* Line 87: resetCallbacks() unregisters every callback; close() returns.
CloseReset(t) ==
    /\ th[t].pc = "close_reset"
    /\ callbacks' = [open |-> FALSE, closed |-> FALSE, available |-> FALSE]
    /\ closeReturned' = TRUE
    /\ Move(t, [th[t] EXCEPT !.pc = "idle", !.ret = "void"])
    /\ UNCHANGED <<callBudget, mIsClosed, descVars, mMediaHandler, mDtlsSrtpTransport, queueVars,
                   heap, badDirection, queueFull, notified, calls, closedTriggered,
                   closedBy, lateEvents>>

\* -------------------------------------------------------------------- open
\* Lines 135-138: the transport is stored under the lock.
OpenAttach(t) ==
    /\ CanStart(t)
    /\ CanLock(t, "exclusive")
    /\ calls' = calls + 1
    /\ mDtlsSrtpTransport' = "live"
    /\ Move(t, Scoped("exclusive", [Begin(t, "open") EXCEPT !.pc = "open_check"]))
    /\ UNCHANGED <<callBudget, mIsClosed, descVars, mMediaHandler, callbacks, queueVars, heap,
                   badDirection, queueFull, notified, closeHist, lateEvents>>

\* Line 140: the closed flag is read after the lock is released.
OpenCheck(t) ==
    /\ th[t].pc = "open_check"
    /\ Move(t, [th[t] EXCEPT !.pc = IF ~mIsClosed THEN "open_trigger" ELSE "idle",
                        !.ret = IF ~mIsClosed THEN "none" ELSE "void"])
    /\ UNCHANGED <<callBudget, mIsClosed, descVars, mMediaHandler, mDtlsSrtpTransport, callbacks,
                   queueVars, heap, badDirection, queueFull, notified, calls, closeHist,
                   lateEvents>>

\* Line 141: triggerOpen() invokes the open callback when one is registered.
OpenTrigger(t) ==
    /\ th[t].pc = "open_trigger"
    /\ Move(t, [th[t] EXCEPT !.pc = "idle", !.ret = "void",
                        !.fx = @ \cup (IF callbacks.open THEN {"open"} ELSE {})])
    /\ lateEvents' = Delivered(callbacks.open)
    /\ UNCHANGED <<callBudget, mIsClosed, descVars, mMediaHandler, mDtlsSrtpTransport, callbacks,
                   queueVars, heap, badDirection, queueFull, notified, calls, closeHist>>

\* An isOpen() that looks at the transport only.
OpenAnswerTransportOnly(closed, transport) == transport = "live"

\* Line 117: !mIsClosed && mDtlsSrtpTransport.lock().
OpenAnswer(closed, transport) == ~closed /\ transport = "live"

\* Lines 116-117: the shared lock, then the left operand; a set flag answers
\* false without looking at the transport.
IsOpenFlag(t) ==
    /\ CanStart(t)
    /\ CanLock(t, "shared")
    /\ calls' = calls + 1
    /\ LET f == Acquire([Begin(t, "isOpen") EXCEPT
                            !.sawTransport = mDtlsSrtpTransport], "shared")
       IN  IF mIsClosed
           THEN Move(t, Release([f EXCEPT
                    !.ret = IF OpenAnswer(TRUE, mDtlsSrtpTransport)
                            THEN "true" ELSE "false"]))
           ELSE Move(t, [f EXCEPT !.pc = "io_transport"])
    /\ UNCHANGED <<callBudget, mIsClosed, descVars, mMediaHandler, mDtlsSrtpTransport,
                   callbacks, queueVars, heap, badDirection, queueFull, notified,
                   closeHist, lateEvents>>

\* Line 117, the right operand, still under the shared lock; lines 117-121:
\* the answer, and the lock is released.
IsOpenTransport(t) ==
    /\ th[t].pc = "io_transport"
    /\ Move(t, Release([th[t] EXCEPT
                    !.pc = "idle",
                    !.ret = IF OpenAnswer(th[t].closedAtStart, mDtlsSrtpTransport)
                            THEN "true" ELSE "false"]))
    /\ UNCHANGED <<callBudget, mIsClosed, descVars, mMediaHandler, mDtlsSrtpTransport,
                   callbacks, queueVars, heap, badDirection, queueFull, notified, calls,
                   closeHist, lateEvents>>

\* The owner of the transport destroys it: the weak reference expires.
TransportGone ==
    /\ mDtlsSrtpTransport = "live"
    /\ mDtlsSrtpTransport' = "expired"
    /\ UNCHANGED <<callBudget, mIsClosed, descVars, mMediaHandler, callbacks, queueVars, heap,
                   badDirection, queueFull, notified, calls, th, last, closeHist,
                   lateEvents>>

\* --------------------------------------------------------- setMediaHandler
\* Lines 227-230: the handler is swapped under the exclusive lock.
SetHandlerSwap(t, h) ==
    /\ CanStart(t)
    /\ CanLock(t, "exclusive")
    /\ calls' = calls + 1
    /\ mMediaHandler' = h
    /\ Move(t, Scoped("exclusive", [Begin(t, "setMediaHandler") EXCEPT
                    !.handler = h,
                    !.pc = IF h # NoHandler THEN "smh_read" ELSE "idle",
                    !.ret = IF h # NoHandler THEN "none" ELSE "void"]))
    /\ UNCHANGED <<callBudget, mIsClosed, descVars, mDtlsSrtpTransport, callbacks, queueVars, heap,
                   badDirection, queueFull, notified, closeHist, lateEvents>>

\* Line 233, description(): a snapshot taken under the shared lock.
SetHandlerRead(t) ==
    /\ th[t].pc = "smh_read"
    /\ CanLock(t, "shared")
    /\ Move(t, Scoped("shared", [th[t] EXCEPT !.pc = "smh_notify", !.desc = mMediaDescription]))
    /\ UNCHANGED <<callBudget, mIsClosed, descVars, mMediaHandler, mDtlsSrtpTransport, callbacks,
                   queueVars, heap, badDirection, queueFull, notified, calls, closeHist,
                   lateEvents>>

\* Line 233, handler->media(snapshot), outside the lock.
SetHandlerNotify(t) ==
    /\ th[t].pc = "smh_notify"
    /\ notified' = [notified EXCEPT ![th[t].handler] = th[t].desc]
    /\ Move(t, [th[t] EXCEPT !.pc = "idle", !.ret = "void", !.fx = @ \cup {"media"}])
    /\ UNCHANGED <<callBudget, mIsClosed, descVars, mMediaHandler, mDtlsSrtpTransport, callbacks,
                   queueVars, heap, badDirection, queueFull, calls, closeHist,
                   lateEvents>>

\* ---------------------------------------------------------- setDescription
\* A setDescription() that does not compare the mids.
MidUnchecked(desc) == TRUE

\* Line 60: the mid of a replacement description must be the Track's mid.
MidMatches(desc) == desc.mid = mMediaDescription.mid

\* Lines 58-74: the check and the update, under the exclusive lock.
SetDescriptionStore(t, desc) ==
    /\ CanStart(t)
    /\ CanLock(t, "exclusive")
    /\ calls' = calls + 1
    /\ IF MidMatches(desc)
       THEN /\ mMediaDescription' = StoreDescription(desc)[1]
            /\ mSdesMidExtId' = StoreDescription(desc)[2]
            /\ Move(t, Scoped("exclusive", [Begin(t, "setDescription") EXCEPT
                            !.pc = "sd_handler", !.input = desc]))
       ELSE /\ UNCHANGED descVars
            /\ Move(t, Scoped("exclusive", [Begin(t, "setDescription") EXCEPT
                            !.ret = "ConfigurationMismatch", !.input = desc]))
    /\ UNCHANGED <<callBudget, mIsClosed, mMediaHandler, mDtlsSrtpTransport, callbacks, queueVars,
                   heap, badDirection, queueFull, notified, closeHist, lateEvents>>

\* Lines 58-67, for a caller that shares the Track with a reader that takes no
\* lock: the mid check, then mSdesMidExtId = desc.findExtId(uri), which leaves
\* the optional empty when desc does not map the URI.  The lock stays held.
SetDescriptionFind(t, desc) ==
    /\ CanStart(t)
    /\ CanLock(t, "exclusive")
    /\ calls' = calls + 1
    /\ LET f == Acquire([Begin(t, "setDescription") EXCEPT
                            !.input = desc, !.desc = desc], "exclusive")
       IN  IF MidMatches(desc)
           THEN /\ mSdesMidExtId' = findExtId(desc, sdesMidExtUri)
                /\ Move(t, [f EXCEPT !.pc = IF findExtId(desc, sdesMidExtUri) = NoExtId
                                            THEN "sd_alloc" ELSE "sd_move"])
           ELSE /\ UNCHANGED mSdesMidExtId
                /\ Move(t, Release([f EXCEPT !.ret = "ConfigurationMismatch"]))
    /\ UNCHANGED <<callBudget, mIsClosed, mMediaDescription, mMediaHandler,
                   mDtlsSrtpTransport, callbacks, queueVars, heap, badDirection,
                   queueFull, notified, closeHist, lateEvents>>

\* Lines 68-71: the next free id is stored and mapped in the argument.
SetDescriptionAlloc(t) ==
    /\ th[t].pc = "sd_alloc"
    /\ mSdesMidExtId' = nextExtId(th[t].desc)
    /\ Move(t, [th[t] EXCEPT
                    !.desc = addExtMap(@, nextExtId(@), sdesMidExtUri),
                    !.pc = "sd_move"])
    /\ UNCHANGED <<callBudget, mIsClosed, mMediaDescription, mMediaHandler,
                   mDtlsSrtpTransport, callbacks, queueVars, heap, badDirection,
                   queueFull, notified, calls, closeHist, lateEvents>>

\* Lines 73-74: the argument replaces the description; the lock is released.
SetDescriptionMove(t) ==
    /\ th[t].pc = "sd_move"
    /\ mMediaDescription' = th[t].desc
    /\ Move(t, Release([th[t] EXCEPT !.pc = "sd_handler"]))
    /\ UNCHANGED <<callBudget, mIsClosed, mSdesMidExtId, mMediaHandler,
                   mDtlsSrtpTransport, callbacks, queueVars, heap, badDirection,
                   queueFull, notified, calls, closeHist, lateEvents>>

\* Line 76: getMediaHandler() under the shared lock.
SetDescriptionHandler(t) ==
    /\ th[t].pc = "sd_handler"
    /\ CanLock(t, "shared")
    /\ Move(t, Scoped("shared", [th[t] EXCEPT !.handler = mMediaHandler,
                        !.pc = IF mMediaHandler # NoHandler THEN "sd_read" ELSE "idle",
                        !.ret = IF mMediaHandler # NoHandler THEN "none" ELSE "void"]))
    /\ UNCHANGED <<callBudget, mIsClosed, descVars, mMediaHandler, mDtlsSrtpTransport, callbacks,
                   queueVars, heap, badDirection, queueFull, notified, calls, closeHist,
                   lateEvents>>

\* Line 77, description(): a snapshot taken under the shared lock.
SetDescriptionRead(t) ==
    /\ th[t].pc = "sd_read"
    /\ CanLock(t, "shared")
    /\ Move(t, Scoped("shared", [th[t] EXCEPT !.pc = "sd_notify", !.desc = mMediaDescription]))
    /\ UNCHANGED <<callBudget, mIsClosed, descVars, mMediaHandler, mDtlsSrtpTransport, callbacks,
                   queueVars, heap, badDirection, queueFull, notified, calls, closeHist,
                   lateEvents>>

\* Line 77, handler->media(snapshot), outside the lock.
SetDescriptionNotify(t) ==
    /\ th[t].pc = "sd_notify"
    /\ notified' = [notified EXCEPT ![th[t].handler] = th[t].desc]
    /\ Move(t, [th[t] EXCEPT !.pc = "idle", !.ret = "void", !.fx = @ \cup {"media"}])
    /\ UNCHANGED <<callBudget, mIsClosed, descVars, mMediaHandler, mDtlsSrtpTransport, callbacks,
                   queueVars, heap, badDirection, queueFull, calls, closeHist,
                   lateEvents>>

\* ------------------------------------------------------------------- queue
\* A weight function that counts messages instead of bytes.
WeightOne(m) == 1

\* Track::Track, line 24: the weight of a queued message is its current size.
Weight(m) == Len(m.data)

\* Queue::full(): no room is left.
QueueIsFull == mAmount >= RECV_QUEUE_LIMIT

\* Queue::push(): true when the element fits in the remaining capacity.
PushAdmits(m) == mAmount + Weight(m) <= RECV_QUEUE_LIMIT

\* to_variant(std::move(*message)): the content leaves the queued Message.
MovedFrom(m) == [m EXCEPT !.data = <<>>]

\* Lines 93-96 and 104-107: a Control message is copied, any other is moved from.
AfterConvert(m) == IF m.type = "Control" THEN m ELSE MovedFrom(m)

\* ---------------------------------------------------------------- incoming
\* An inbound filter that forgets the Inactive direction.
IncomingDeniedSendOnly(dir, type) == dir = "SendOnly" /\ type # "Control"

\* Lines 150-151: a non-Control message is refused under SendOnly and Inactive.
IncomingDenied(dir, type) == dir \in {"SendOnly", "Inactive"} /\ type # "Control"

\* Lines 183-184: a non-Control message is refused under RecvOnly and Inactive.
OutgoingDenied(dir, type) == dir \in {"RecvOnly", "Inactive"} /\ type # "Control"

\* The messages a handler adds to a batch.
HandlerPackets ==
    { [type |-> "Binary", data |-> RtpBytes, dscp |-> 0],
      [type |-> "Control", data |-> RtcpBytes, dscp |-> 0] }

\* A message_ptr: the message and its identity.
WithId(pkt, id) == [id |-> id, type |-> pkt.type, data |-> pkt.data, dscp |-> pkt.dscp]

\* What a chain of the handler may leave of the one-message batch of call c:
\* the message, nothing, or the message followed by one the handler made.
ChainResults(m, c) ==
    {<<m>>, <<>>} \cup { <<m, WithId(x, ExtraId(c))>> : x \in HandlerPackets }

\* The batches the handler of thread t may answer with when t is at pc.
ChainChoices(t, pc) ==
    IF th[t].pc = pc THEN ChainResults(th[t].batch[1], th[t].call) ELSE {}

\* Line 146: a null message_ptr is ignored.
IncomingNull(t) ==
    /\ CanStart(t)
    /\ calls' = calls + 1
    /\ Move(t, [Begin(t, "incoming") EXCEPT !.ret = "void"])
    /\ UNCHANGED <<callBudget, mIsClosed, descVars, mMediaHandler, mDtlsSrtpTransport,
                   callbacks, queueVars, heap, badDirection, queueFull, notified,
                   closeHist, lateEvents>>

\* Lines 149-154: direction() under the shared lock, then the direction filter.
IncomingGate(t, pkt) ==
    /\ CanStart(t)
    /\ CanLock(t, "shared")
    /\ calls' = calls + 1
    /\ LET dir == mMediaDescription.direction
           f == [Begin(t, "incoming") EXCEPT
                    !.batch = <<WithId(pkt, MsgId(calls + 1))>>, !.dir = dir,
                    !.type = pkt.type, !.kind = pkt.type]
       IN  IF IncomingDenied(dir, pkt.type)
           THEN /\ badDirection' = badDirection + 1
                /\ Move(t, Scoped("shared", [f EXCEPT !.ret = "void", !.fx = {"drop"}]))
           ELSE /\ badDirection' = badDirection
                /\ Move(t, Scoped("shared", [f EXCEPT !.pc = "in_handler"]))
    /\ UNCHANGED <<callBudget, mIsClosed, descVars, mMediaHandler, mDtlsSrtpTransport,
                   callbacks, queueVars, heap, queueFull, notified, closeHist,
                   lateEvents>>

\* Lines 156-157: the batch of one, and getMediaHandler() under the shared lock.
IncomingHandler(t) ==
    /\ th[t].pc = "in_handler"
    /\ CanLock(t, "shared")
    /\ Move(t, Scoped("shared", [th[t] EXCEPT !.handler = mMediaHandler,
                             !.pc = IF mMediaHandler # NoHandler THEN "in_chain"
                                    ELSE "in_full"]))
    /\ UNCHANGED <<callBudget, mIsClosed, descVars, mMediaHandler, mDtlsSrtpTransport,
                   callbacks, queueVars, heap, badDirection, queueFull, notified, calls,
                   closeHist, lateEvents>>

\* Line 158: handler->incomingChain(messages, send) rewrites the batch.
IncomingChain(t, batch) ==
    /\ th[t].pc = "in_chain"
    /\ batch \in ChainResults(th[t].batch[1], th[t].call)
    /\ Move(t, [th[t] EXCEPT !.batch = batch,
                             !.fx = @ \cup {"chain"},
                             !.pc = IF batch = <<>> THEN "idle" ELSE "in_full",
                             !.ret = IF batch = <<>> THEN "void" ELSE "none"])
    /\ UNCHANGED <<callBudget, mIsClosed, descVars, mMediaHandler, mDtlsSrtpTransport,
                   callbacks, queueVars, heap, badDirection, queueFull, notified, calls,
                   closeHist, lateEvents>>

\* Lines 162-165: tail drop; the rest of the batch is abandoned.
IncomingFull(t) ==
    /\ th[t].pc = "in_full"
    /\ IF QueueIsFull
       THEN /\ queueFull' = queueFull + 1
            /\ Move(t, [th[t] EXCEPT !.pc = "idle", !.ret = "void",
                                     !.fx = @ \cup {"full"}])
       ELSE /\ queueFull' = queueFull
            /\ Move(t, [th[t] EXCEPT !.pc = "in_push"])
    /\ UNCHANGED <<callBudget, mIsClosed, descVars, mMediaHandler, mDtlsSrtpTransport,
                   callbacks, queueVars, heap, badDirection, notified, calls, closeHist,
                   lateEvents>>

\* Line 167: mRecvQueue.push(m); the result of the push is not looked at.
IncomingPush(t) ==
    /\ th[t].pc = "in_push"
    /\ LET m == Head(th[t].batch)
       IN  IF PushAdmits(m)
           THEN /\ mRecvQueue' = Append(mRecvQueue, m.id)
                /\ mAmount' = mAmount + Weight(m)
                /\ heap' = [heap EXCEPT ![m.id] = m]
                /\ admitted' = Append(admitted, m)
                /\ Move(t, [th[t] EXCEPT !.pc = "in_avail", !.fx = @ \cup {"push"}])
           ELSE /\ UNCHANGED <<mRecvQueue, mAmount, heap, admitted>>
                /\ Move(t, [th[t] EXCEPT !.pc = "in_avail", !.fx = @ \cup {"reject"}])
    /\ UNCHANGED <<callBudget, mIsClosed, descVars, mMediaHandler, mDtlsSrtpTransport,
                   callbacks, returned, badDirection, queueFull, notified, calls,
                   closeHist, lateEvents>>

\* Line 168: triggerAvailable(mRecvQueue.size()), then the next message.
IncomingAvailable(t) ==
    /\ th[t].pc = "in_avail"
    /\ LET rest == Tail(th[t].batch)
       IN  Move(t, [th[t] EXCEPT !.batch = rest,
                                 !.fx = @ \cup (IF callbacks.available
                                                THEN {"available"} ELSE {}),
                                 !.pc = IF rest = <<>> THEN "idle" ELSE "in_full",
                                 !.ret = IF rest = <<>> THEN "void" ELSE "none"])
    /\ lateEvents' = Delivered(callbacks.available)
    /\ UNCHANGED <<callBudget, mIsClosed, descVars, mMediaHandler, mDtlsSrtpTransport,
                   callbacks, queueVars, heap, badDirection, queueFull, notified, calls,
                   closeHist>>

\* ----------------------------------------------------------- transportSend
\* Line 209: a send needs a transport that is still alive.
HasTransport == mDtlsSrtpTransport = "live"

\* Lines 214-217: the recommended DSCP value for the media type.
Dscp == IF mMediaDescription.type = "audio" THEN DscpAudio ELSE DscpVideo

\* Lines 205-220: the message as the transport gets it.
Marked(m) == [m EXCEPT !.dscp = Dscp]

\* Line 158, the send callback: the handler sends a message of its own while it
\* runs the inbound chain; without a transport transportSend throws.
IncomingChainSend(t) ==
    /\ th[t].pc = "in_chain"
    /\ CanLock(t, "shared")
    /\ "side" \notin th[t].fx
    /\ IF HasTransport
       THEN Move(t, Scoped("shared", [th[t] EXCEPT
                        !.fx = @ \cup {"side", "send"},
                        !.sent = Append(@, Marked(WithId(
                            [type |-> "Control", data |-> RtcpBytes, dscp |-> 0], 0)))]))
       ELSE Move(t, Scoped("shared", [th[t] EXCEPT !.fx = @ \cup {"side"}, !.pc = "idle",
                                  !.ret = "TrackClosed"]))
    /\ UNCHANGED <<callBudget, mIsClosed, descVars, mMediaHandler, mDtlsSrtpTransport,
                   callbacks, queueVars, heap, badDirection, queueFull, notified, calls,
                   closeHist, lateEvents>>

\* ---------------------------------------------------------------- outgoing
\* An outgoing() without the closed check.
OutgoingNeverRefused == FALSE

\* Line 173: a closed Track refuses to send.
OutgoingRefused == mIsClosed

\* Lines 173-174: the closed check comes first.
OutgoingStart(t, pkt) ==
    /\ CanStart(t)
    /\ calls' = calls + 1
    /\ LET f == [Begin(t, "outgoing") EXCEPT
                    !.batch = <<WithId(pkt, MsgId(calls + 1))>>, !.type = pkt.type]
       IN  IF OutgoingRefused
           THEN Move(t, [f EXCEPT !.ret = "TrackClosed"])
           ELSE Move(t, [f EXCEPT !.pc = "out_handler"])
    /\ UNCHANGED <<callBudget, mIsClosed, descVars, mMediaHandler, mDtlsSrtpTransport,
                   callbacks, queueVars, heap, badDirection, queueFull, notified,
                   closeHist, lateEvents>>

\* An outgoing() that keeps the tag the packet came with.
KeepTag(handler, m) == m

\* Line 179: without a handler an RTCP packet is retagged Control.
Reclassify(handler, m) ==
    IF handler = NoHandler /\ IsRtcp(m) THEN [m EXCEPT !.type = "Control"] ELSE m

\* Lines 176-180: getMediaHandler() under the shared lock, then the retagging.
OutgoingHandler(t) ==
    /\ th[t].pc = "out_handler"
    /\ CanLock(t, "shared")
    /\ Move(t, Scoped("shared", [th[t] EXCEPT
                    !.handler = mMediaHandler,
                    !.batch = <<Reclassify(mMediaHandler, th[t].batch[1])>>,
                    !.rtcpNoHandler =
                        (mMediaHandler = NoHandler /\ IsRtcp(th[t].batch[1])),
                    !.pc = "out_dir"]))
    /\ UNCHANGED <<callBudget, mIsClosed, descVars, mMediaHandler, mDtlsSrtpTransport,
                   callbacks, queueVars, heap, badDirection, queueFull, notified, calls,
                   closeHist, lateEvents>>

\* Lines 182-187: direction() under the shared lock, then the direction filter.
OutgoingGate(t) ==
    /\ th[t].pc = "out_dir"
    /\ CanLock(t, "shared")
    /\ LET dir == mMediaDescription.direction
           kind == th[t].batch[1].type
       IN  IF OutgoingDenied(dir, kind)
           THEN /\ badDirection' = badDirection + 1
                /\ Move(t, Scoped("shared", [th[t] EXCEPT !.dir = dir, !.kind = kind, !.pc = "idle",
                                         !.ret = "false", !.fx = @ \cup {"drop"}]))
           ELSE /\ badDirection' = badDirection
                /\ Move(t, Scoped("shared", [th[t] EXCEPT !.dir = dir, !.kind = kind,
                                         !.pc = IF th[t].handler # NoHandler
                                                THEN "out_chain" ELSE "out_send"]))
    /\ UNCHANGED <<callBudget, mIsClosed, descVars, mMediaHandler, mDtlsSrtpTransport,
                   callbacks, queueVars, heap, queueFull, notified, calls, closeHist,
                   lateEvents>>

\* Lines 190-192: handler->outgoingChain(messages, send) rewrites the batch;
\* ret starts false and an empty batch returns it.
OutgoingChain(t, batch) ==
    /\ th[t].pc = "out_chain"
    /\ batch \in ChainResults(th[t].batch[1], th[t].call)
    /\ Move(t, [th[t] EXCEPT !.batch = batch,
                             !.chained = batch,
                             !.fx = @ \cup {"chain"},
                             !.pc = IF batch = <<>> THEN "idle" ELSE "out_send",
                             !.ret = "false"])
    /\ UNCHANGED <<callBudget, mIsClosed, descVars, mMediaHandler, mDtlsSrtpTransport,
                   callbacks, queueVars, heap, badDirection, queueFull, notified, calls,
                   closeHist, lateEvents>>

\* An outgoing() that answers true only when every send so far succeeded.
AggregateAnd(ret, ok) == IF ret = "true" /\ ok THEN "true" ELSE "false"

\* Lines 194 and 199: ret = transportSend(...) overwrites the result so far.
Aggregate(ret, ok) == IF ok THEN "true" ELSE "false"

\* Lines 193-199: transportSend() of the next message of the batch; ok is what
\* sendMedia answers. The last answer is the result; a missing transport throws.
OutgoingSend(t, ok) ==
    /\ th[t].pc = "out_send"
    /\ CanLock(t, "shared")
    /\ LET m == Head(th[t].batch)
           rest == Tail(th[t].batch)
       IN  IF HasTransport
           THEN Move(t, Scoped("shared", [th[t] EXCEPT
                            !.batch = rest,
                            !.sent = Append(@, Marked(m)),
                            !.ok = ok,
                            !.fx = @ \cup {"send"},
                            !.ret = Aggregate(@, ok),
                            !.pc = IF rest = <<>> THEN "idle" ELSE "out_send"]))
           ELSE /\ ok = FALSE
                /\ Move(t, Scoped("shared", [th[t] EXCEPT !.pc = "idle", !.ret = "TrackClosed"]))
    /\ UNCHANGED <<callBudget, mIsClosed, descVars, mMediaHandler, mDtlsSrtpTransport,
                   callbacks, queueVars, heap, badDirection, queueFull, notified, calls,
                   closeHist, lateEvents>>

\* ------------------------------------------------------- receive and peek
\* Whether a thread other than t still holds a message_ptr to message id.
HeldElsewhere(t, id) ==
    \E u \in Threads \ {t} : th[u].pc \in {"rx_convert", "pk_convert"} /\ th[u].msg = id

InQueue(id) == \E k \in 1..Len(mRecvQueue) : mRecvQueue[k] = id

\* A receive() that reads the front of the queue and leaves it there.
ReceiveKeepsFront(t) ==
    /\ CanStart(t)
    /\ calls' = calls + 1
    /\ IF mRecvQueue = <<>>
       THEN /\ UNCHANGED returned
            /\ Move(t, [Begin(t, "receive") EXCEPT !.ret = "nullopt"])
       ELSE /\ returned' = Append(returned, Head(mRecvQueue))
            /\ Move(t, [Begin(t, "receive") EXCEPT
                            !.msg = Head(mRecvQueue), !.pc = "rx_convert"])
    /\ UNCHANGED <<callBudget, mIsClosed, descVars, mMediaHandler, mDtlsSrtpTransport,
                   callbacks, mRecvQueue, mAmount, admitted, heap, badDirection,
                   queueFull, notified, closeHist, lateEvents>>

\* Line 91: mRecvQueue.pop() removes the front and subtracts its weight.
ReceivePop(t) ==
    /\ CanStart(t)
    /\ calls' = calls + 1
    /\ IF mRecvQueue = <<>>
       THEN /\ UNCHANGED <<mRecvQueue, mAmount, returned>>
            /\ Move(t, [Begin(t, "receive") EXCEPT !.ret = "nullopt"])
       ELSE /\ mRecvQueue' = Tail(mRecvQueue)
            /\ mAmount' = mAmount - Weight(heap[Head(mRecvQueue)])
            /\ returned' = Append(returned, Head(mRecvQueue))
            /\ Move(t, [Begin(t, "receive") EXCEPT
                            !.msg = Head(mRecvQueue), !.pc = "rx_convert"])
    /\ UNCHANGED <<callBudget, mIsClosed, descVars, mMediaHandler, mDtlsSrtpTransport,
                   callbacks, admitted, heap, badDirection, queueFull, notified,
                   closeHist, lateEvents>>

\* Lines 92-96: the popped message becomes the returned value; the Message is
\* freed with its last message_ptr.
ReceiveConvert(t) ==
    /\ th[t].pc = "rx_convert"
    /\ heap' = [heap EXCEPT ![th[t].msg] =
                    IF HeldElsewhere(t, th[t].msg) THEN AfterConvert(@) ELSE NoMsg]
    /\ Move(t, [th[t] EXCEPT !.pc = "idle", !.ret = "value", !.val = heap[th[t].msg]])
    /\ UNCHANGED <<callBudget, mIsClosed, descVars, mMediaHandler, mDtlsSrtpTransport,
                   callbacks, queueVars, badDirection, queueFull, notified, calls,
                   closeHist, lateEvents>>

\* Line 102: mRecvQueue.peek() copies the front message_ptr; nothing is removed.
PeekFront(t) ==
    /\ CanStart(t)
    /\ calls' = calls + 1
    /\ IF mRecvQueue = <<>>
       THEN Move(t, [Begin(t, "peek") EXCEPT !.ret = "nullopt"])
       ELSE Move(t, [Begin(t, "peek") EXCEPT
                        !.msg = Head(mRecvQueue), !.pc = "pk_convert"])
    /\ UNCHANGED <<callBudget, mIsClosed, descVars, mMediaHandler, mDtlsSrtpTransport,
                   callbacks, queueVars, heap, badDirection, queueFull, notified,
                   closeHist, lateEvents>>

\* Lines 103-107: the message the queue still holds becomes the returned value.
PeekConvert(t) ==
    /\ th[t].pc = "pk_convert"
    /\ heap' = [heap EXCEPT ![th[t].msg] =
                    IF InQueue(th[t].msg) \/ HeldElsewhere(t, th[t].msg)
                    THEN AfterConvert(@) ELSE NoMsg]
    /\ Move(t, [th[t] EXCEPT !.pc = "idle", !.ret = "value", !.val = heap[th[t].msg]])
    /\ UNCHANGED <<callBudget, mIsClosed, descVars, mMediaHandler, mDtlsSrtpTransport,
                   callbacks, queueVars, badDirection, queueFull, notified, calls,
                   closeHist, lateEvents>>

\* ------------------------------------------------------------- tagWithMid
\* sizeof(RtpHeader): the RTP fixed header.
RtpHeaderSize == 12

\* An RTP packet with the extension flag set and a 0xBEDE block of one word
\* that holds the element (id 2, one byte of value 5), then one payload byte.
RtpExtBytes == <<144, 96, 0, 1, 0, 0, 0, 1, 0, 0, 0, 1, 190, 222, 0, 1, 32, 5, 0, 0, 7>>

\* A buffer that is shorter than the RTP fixed header and is not RTCP.
ShortBytes == <<128, 96, 0, 1>>

\* What a caller may hand to tagWithMid().
TagInputs ==
    { [type |-> "Binary", data |-> RtpBytes, dscp |-> 0],
      [type |-> "Binary", data |-> RtpExtBytes, dscp |-> 0],
      [type |-> "Binary", data |-> ShortBytes, dscp |-> 0],
      [type |-> "Control", data |-> RtcpBytes, dscp |-> 0] }

\* Lines 251-272 on a buffer that cannot hold an RtpHeader: the header fields
\* are read and the insert position lies past the end of the buffer.  The
\* call may crash, return with the buffer as it was, or return with other bytes.
UndefinedOutcomes(m) ==
    { [ret |-> "crash", val |-> NoMsg],
      [ret |-> "void", val |-> m],
      [ret |-> "void", val |-> [m EXCEPT !.data = <<0>> \o @]] }

\* Line 250: message->size() < sizeof(RtpHeader) guards the tagging.
TagsPacket(m) == Len(m.data) < RtpHeaderSize

\* Lines 244-250, without a lock: RTCP is left alone; mSdesMidExtId is read
\* while a writer may be between lines 67 and 73; then the size test.
TagStart(t, pkt) ==
    /\ CanStart(t)
    /\ calls' = calls + 1
    /\ LET m == WithId(pkt, MsgId(calls + 1))
           f == [Begin(t, "tagWithMid") EXCEPT !.batch = <<m>>, !.type = pkt.type]
       IN  IF IsRtcp(m)
           THEN Move(t, [f EXCEPT !.ret = "void", !.val = m])
           ELSE LET g == [f EXCEPT !.extId = mSdesMidExtId,
                                   !.desc = mMediaDescription,
                                   !.fx = {"read"}]
                IN  IF mSdesMidExtId = NoExtId \/ ~TagsPacket(m)
                    THEN Move(t, [g EXCEPT !.ret = "void", !.val = m])
                    ELSE Move(t, [g EXCEPT !.pc = "tag_write"])
    /\ UNCHANGED <<callBudget, mIsClosed, descVars, mMediaHandler, mDtlsSrtpTransport,
                   callbacks, queueVars, heap, badDirection, queueFull, notified,
                   closeHist, lateEvents>>

\* Lines 251-273 for a buffer shorter than an RtpHeader.
TagOutOfBounds(t, outcome) ==
    /\ th[t].pc = "tag_write"
    /\ outcome \in UndefinedOutcomes(th[t].batch[1])
    /\ Move(t, [th[t] EXCEPT !.pc = "idle", !.ret = outcome.ret, !.val = outcome.val])
    /\ UNCHANGED <<callBudget, mIsClosed, descVars, mMediaHandler, mDtlsSrtpTransport,
                   callbacks, queueVars, heap, badDirection, queueFull, notified, calls,
                   closeHist, lateEvents>>

\* Line 112: availableAmount() is the queue's accumulated weight.
availableAmount == mAmount

\* ------------------------------------------------------------------- steps
CloseStep(T) == \E t \in T :
    CloseExchange(t) \/ CloseTrigger(t) \/ CloseDetach(t) \/ CloseReset(t)

OpenStep(T) == \E t \in T : OpenAttach(t) \/ OpenCheck(t) \/ OpenTrigger(t)

SetDescriptionFineStep(T, D) == \E t \in T :
    \/ \E desc \in D : SetDescriptionFind(t, desc)
    \/ SetDescriptionAlloc(t)
    \/ SetDescriptionMove(t)
    \/ SetDescriptionHandler(t)
    \/ SetDescriptionRead(t)
    \/ SetDescriptionNotify(t)

TagStep(T) == \E t \in T :
    \/ \E pkt \in TagInputs : TagStart(t, pkt)
    \/ \E m \in {th[t].batch[k] : k \in DOMAIN th[t].batch} :
          \E outcome \in UndefinedOutcomes(m) : TagOutOfBounds(t, outcome)

IsOpenStep(T) == \E t \in T : IsOpenFlag(t) \/ IsOpenTransport(t)

SetHandlerStep(T) == \E t \in T :
    \/ \E h \in Handlers \cup {NoHandler} : SetHandlerSwap(t, h)
    \/ SetHandlerRead(t)
    \/ SetHandlerNotify(t)

SetDescriptionStep(T, D) == \E t \in T :
    \/ \E desc \in D : SetDescriptionStore(t, desc)
    \/ SetDescriptionHandler(t)
    \/ SetDescriptionRead(t)
    \/ SetDescriptionNotify(t)

IncomingStep(T) == \E t \in T :
    \/ IncomingNull(t)
    \/ \E pkt \in PacketInputs : IncomingGate(t, pkt)
    \/ IncomingHandler(t)
    \/ \E b \in ChainChoices(t, "in_chain") : IncomingChain(t, b)
    \/ IncomingChainSend(t)
    \/ IncomingFull(t)
    \/ IncomingPush(t)
    \/ IncomingAvailable(t)

OutgoingStep(T) == \E t \in T :
    \/ \E pkt \in PacketInputs : OutgoingStart(t, pkt)
    \/ OutgoingHandler(t)
    \/ OutgoingGate(t)
    \/ \E b \in ChainChoices(t, "out_chain") : OutgoingChain(t, b)
    \/ \E ok \in BOOLEAN : OutgoingSend(t, ok)

ReceiveStep(T) == \E t \in T : ReceivePop(t) \/ ReceiveConvert(t)

PeekStep(T) == \E t \in T : PeekFront(t) \/ PeekConvert(t)

\* ---------------------------------------------------------- specifications
\* The descriptions a Track of the life-cycle specifications is created with:
\* one mid, one media type, every direction, no extension mapped yet.
LifeDescs ==
    { d \in Descriptions : d.mid = "0" /\ d.type = "video" /\ d.extMap = <<>> }

\* The life cycle: any thread closes the Track, the network thread opens it,
\* the owner may destroy the transport, application threads swap the handler.
Init == InitWith(LifeDescs, {NoHandler}, {"none"}, MaxCalls)

Next ==
    \/ CloseStep(Threads)
    \/ OpenStep({"net"})
    \/ TransportGone
    \/ SetHandlerStep(AppThreads)

Spec == Init /\ [][Next]_vars

\* The life cycle of a receiving Track: the network thread opens it and
\* delivers packets while application threads close it and swap the handler.
NextLife ==
    \/ CloseStep(AppThreads)
    \/ OpenStep({"net"})
    \/ SetHandlerStep(AppThreads)
    \/ IncomingStep({"net"})

SpecLife == Init /\ [][NextLife]_vars

\* Sending: one application thread sends through a Track that may have a
\* handler and a transport while another closes it.
InitSend == InitWith(LifeDescs, {NoHandler, "h1"}, {"none", "live"}, MaxSendCalls)

NextSend ==
    \/ OutgoingStep({"app1"})
    \/ CloseStep({"app2"})

SpecSend == InitSend /\ [][NextSend]_vars

\* Direction gating: packets flow both ways through a Track that may have a
\* handler and a transport, while the description is renegotiated.
InitGate == InitWith(LifeDescs, {NoHandler, "h1"}, {"none", "live"}, MaxGateCalls)

NextGate ==
    \/ IncomingStep({"net"})
    \/ OutgoingStep({"app1"})
    \/ SetDescriptionStep({"app1"}, LifeDescs)

SpecGate == InitGate /\ [][NextGate]_vars

\* Renegotiation: one thread replaces the description, with or without a handler.
DescInputs == { d \in Descriptions : d.type = "video" /\ d.direction = "SendRecv" }

InitDesc == InitWith(DescInputs, {NoHandler, "h1"}, {"none"}, MaxDescCalls)

NextDesc == SetDescriptionStep({"app1"}, DescInputs)

SpecDesc == InitDesc /\ [][NextDesc]_vars

\* The inbound queue: one producer, two consumers that receive and peek.
QueueDescs == { d \in LifeDescs : d.direction \in {"SendRecv", "SendOnly"} }

InitQueue == InitWith(QueueDescs, {NoHandler, "h1"}, {"none"}, MaxQueueCalls)

NextQueue ==
    \/ IncomingStep({"net"})
    \/ ReceiveStep(AppThreads)
    \/ PeekStep(AppThreads)

SpecQueue == InitQueue /\ [][NextQueue]_vars

\* The inbound queue without peek: one producer, two consumers that receive.
NextRecv ==
    \/ IncomingStep({"net"})
    \/ ReceiveStep(AppThreads)

SpecRecv == InitQueue /\ [][NextRecv]_vars

\* The state of the Track as isOpen() reports it: application threads ask while
\* the network thread opens the Track, one thread closes it and the transport
\* may go away.
NextOpen ==
    \/ IsOpenStep(AppThreads)
    \/ OpenStep({"net"})
    \/ CloseStep({"app1"})
    \/ TransportGone

SpecOpen == Init /\ [][NextOpen]_vars

\* Tagging: one thread tags outgoing packets while another renegotiates the
\* description, with or without a handler.
InitTag == InitWith(DescInputs, {NoHandler, "h1"}, {"none"}, MaxTagCalls)

NextTag == TagStep({"net"}) \/ SetDescriptionFineStep({"app1"}, DescInputs)

SpecTag == InitTag /\ [][NextTag]_vars

\* Notification: one thread renegotiates the description while another swaps
\* the handler.
NextNotify ==
    \/ SetDescriptionStep({"app1"}, DescInputs)
    \/ SetHandlerStep({"app2"})

SpecNotify == InitDesc /\ [][NextNotify]_vars

\* Callbacks: every operation that invokes application or handler code runs
\* on a Track with a handler and a transport, while isOpen() holds the lock
\* across two steps.
CallbackDescs == { d \in LifeDescs : d.direction = "SendRecv" }

InitCallback == InitWith(CallbackDescs, {"h1"}, {"live"}, MaxCallbackCalls)

NextCallback ==
    \/ CloseStep({"app2"})
    \/ OpenStep({"net"})
    \/ IncomingStep({"net"})
    \/ OutgoingStep({"app1"})
    \/ SetDescriptionStep({"app1"}, CallbackDescs)
    \/ SetHandlerStep({"app1"})
    \/ IsOpenStep({"app2"})

SpecCallback == InitCallback /\ [][NextCallback]_vars

\* -------------------------------------------------------------- properties
\* The frames a property looks at: the calls in flight and the last one returned.
Frames == {th[t] : t \in Threads} \cup {last}

\* The frame of the call that the step just started.
Started(f, op) == calls' = calls + 1 /\ f.op = op /\ f.call = calls'

\* C1: however many close() calls run, one after the other or concurrently,
\* triggerClosed() is invoked exactly once, by the call whose exchange moved the
\* closed flag from false to true: never twice, never by another call, and it
\* has been invoked as soon as the flag is set and that call is past line 84.
C1_ClosedFiredOnce ==
    /\ closedTriggered <= 1
    /\ closedTriggered = 1 => (mIsClosed /\ closedBy.firer = closedBy.setter)
    /\ (mIsClosed /\ \A t \in Threads : th[t].pc # "close_trigger")
          => closedTriggered = 1
    /\ ~mIsClosed => (closedTriggered = 0 /\ closedBy.setter = 0)

\* Two close() calls overlap or follow each other: the one that did not move
\* the flag is about to return and the event has been fired once.
C1_Witness ==
    /\ closedTriggered = 1
    /\ \E t \in Threads :
          /\ th[t].op = "close"
          /\ th[t].call # closedBy.setter
          /\ th[t].pc = "close_reset"

\* C2: an outgoing() call that starts with the closed flag set fails with
\* TrackClosed at once: it reads no handler and no direction, drops nothing,
\* runs no chain and hands nothing to the transport, whatever the direction,
\* the packet, the handler and the transport.
C2_ClosedTrackRefusesSend ==
    \A f \in Frames :
        (f.op = "outgoing" /\ f.closedAtStart) =>
            /\ f.pc = "idle"
            /\ f.ret = "TrackClosed"
            /\ f.fx = {}
            /\ f.sent = <<>>

\* A Binary packet is refused on a closed Track whose direction would have
\* made the direction filter answer false, with a transport still attached.
C2_Witness ==
    /\ last.op = "outgoing"
    /\ last.closedAtStart
    /\ last.ret = "TrackClosed"
    /\ last.type = "Binary"
    /\ mMediaDescription.direction = "Inactive"
    /\ mDtlsSrtpTransport = "live"

\* C3: once a close() call has returned, no handler is attached
\* and no open or available event is delivered to the application any more.
C3_ClosedTrackIsQuiet ==
    closeReturned => (mMediaHandler = NoHandler /\ ~lateEvents.afterClose)

\* C4: a setDescription(desc) whose mid differs from the Track's mid fails with
\* ConfigurationMismatch and changes nothing: the description, the extension
\* id and the handler stay, and the handler is not notified.
C4_MidMismatchRejected ==
    [][\A f \in Frames' :
          (Started(f, "setDescription") /\ f.input.mid # mMediaDescription.mid) =>
              /\ f.pc = "idle"
              /\ f.ret = "ConfigurationMismatch"
              /\ f.fx = {}
              /\ UNCHANGED <<mMediaDescription, mSdesMidExtId, mMediaHandler, notified>>
      ]_vars

\* A mismatching description was refused on a Track with a handler attached.
C4_Witness ==
    /\ last.op = "setDescription"
    /\ last.ret = "ConfigurationMismatch"
    /\ last.input.mid # mMediaDescription.mid
    /\ mMediaHandler = "h1"
    /\ notified["h1"] = mMediaDescription

\* The ids of a table that are mapped to the stream-identifier URI.
SdesIds(extMap) == { i \in DOMAIN extMap : extMap[i] = sdesMidExtUri }

\* C5: the stored description always maps the stream-identifier URI exactly
\* once, at the stored extension id; a successful setDescription(desc) keeps the
\* id desc carried and adds nothing, or else adds exactly one mapping, at the
\* lowest id of 1..14 that desc does not use, and keeps every other mapping.
C5_SdesMidMappedOnce ==
    /\ [](SdesIds(mMediaDescription.extMap) = {mSdesMidExtId})
    /\ [][\A f \in Frames' :
            (Started(f, "setDescription") /\ f.input.mid = mMediaDescription.mid) =>
                LET old == f.input.extMap
                    new == mMediaDescription'.extMap
                    id == mSdesMidExtId'
                IN  /\ [mMediaDescription' EXCEPT !.extMap = old] = f.input
                    /\ \A i \in DOMAIN old : i \in DOMAIN new /\ new[i] = old[i]
                    /\ IF SdesIds(old) # {}
                       THEN new = old /\ SdesIds(old) = {id}
                       ELSE /\ DOMAIN new = DOMAIN old \cup {id}
                            /\ id \in 1..MaxExtId
                            /\ id \notin DOMAIN old
                            /\ \A j \in 1..(id - 1) : j \in DOMAIN old
        ]_vars

\* A description that uses ids 1 and 2 for other extensions was stored: the
\* stream identifier got id 3.
C5_Witness ==
    /\ last.op = "setDescription"
    /\ last.ret = "void"
    /\ mSdesMidExtId = 3
    /\ DOMAIN mMediaDescription.extMap = {1, 2, 3}

\* The direction table: which packet kinds a flow lets through.
Permits(dir, kind, flow) ==
    \/ kind = "Control"
    \/ flow = "incoming" /\ dir \in {"RecvOnly", "SendRecv"}
    \/ flow = "outgoing" /\ dir \in {"SendOnly", "SendRecv"}

\* A call of incoming() or outgoing() that has been through the direction filter.
Gated(f) == f.op \in {"incoming", "outgoing"} /\ f.dir \in Directions

\* C6: a call is dropped by the direction filter exactly when the table does
\* not permit the packet's kind under the direction the call read; a dropped
\* call returns at once (outgoing answers false, no error), has run no handler,
\* fired no event and sent nothing; the step that drops adds exactly one to the
\* bad-direction counter and leaves the queue, its amount, the queued messages
\* and the queue-full counter alone, and the counter grows on no other step.
C6_DirectionGate ==
    /\ [](\A f \in Frames :
            Gated(f) =>
                /\ "drop" \in f.fx <=> ~Permits(f.dir, f.kind, f.op)
                /\ "drop" \in f.fx =>
                      /\ f.pc = "idle"
                      /\ f.ret = (IF f.op = "outgoing" THEN "false" ELSE "void")
                      /\ f.fx = {"drop"}
                      /\ f.sent = <<>>)
    /\ [][ /\ (last' # last /\ "drop" \in last'.fx) =>
                /\ badDirection' = badDirection + 1
                /\ UNCHANGED <<mRecvQueue, mAmount, heap, admitted, queueFull,
                               lateEvents, notified>>
           /\ badDirection' # badDirection => (last' # last /\ "drop" \in last'.fx)
      ]_vars

\* Both flows dropped a packet on a Track with a handler and a live transport.
C6_Witness ==
    /\ badDirection = 2
    /\ last.op = "outgoing"
    /\ last.ret = "false"
    /\ "drop" \in last.fx
    /\ mMediaHandler = "h1"
    /\ mDtlsSrtpTransport = "live"

\* C7: an outgoing() call that found no handler and a packet that is RTCP by
\* its bytes is never dropped by the direction filter: from the filter on the
\* packet is Control, whatever tag and direction, and the call goes on to
\* transportSend, which sends it or, without a transport, throws.
C7_RtcpAlwaysSendable ==
    \A f \in Frames :
        (f.op = "outgoing" /\ f.rtcpNoHandler) =>
            /\ "drop" \notin f.fx
            /\ "chain" \notin f.fx
            /\ f.pc \in {"out_dir", "out_send", "idle"}
            /\ f.pc # "idle" => f.batch[1].type = "Control"
            /\ f.pc # "out_dir" => f.kind = "Control"
            /\ f.pc = "idle" =>
                  \/ f.ret = "TrackClosed" /\ f.sent = <<>>
                  \/ /\ f.ret \in {"true", "false"}
                     /\ Len(f.sent) = 1
                     /\ f.sent[1].type = "Control"
                     /\ f.sent[1].data = RtcpBytes

\* An RTCP packet tagged Binary went to the transport under Inactive.
C7_Witness ==
    /\ last.op = "outgoing"
    /\ last.rtcpNoHandler
    /\ last.type = "Binary"
    /\ last.dir = "Inactive"
    /\ "send" \in last.fx
    /\ last.sent[1].type = "Control"

\* The admitted message with identity id, and the bytes it was admitted with.
AdmittedAs(id) == CHOOSE m \in {admitted[k] : k \in DOMAIN admitted} : m.id = id

RECURSIVE AdmittedBytes(_)
AdmittedBytes(q) ==
    IF q = <<>> THEN 0 ELSE Len(AdmittedAs(Head(q)).data) + AdmittedBytes(Tail(q))

\* C8: the accumulated amount never exceeds RECV_QUEUE_LIMIT; every queued
\* message was admitted, is queued once and was not received; and the amount
\* counts the whole admitted size of every message that is in the queue.
C8_QueueBounded ==
    /\ mAmount <= RECV_QUEUE_LIMIT
    /\ \A k \in DOMAIN mRecvQueue :
          /\ \E j \in DOMAIN admitted : admitted[j].id = mRecvQueue[k]
          /\ \A j \in DOMAIN mRecvQueue : mRecvQueue[j] = mRecvQueue[k] => j = k
          /\ \A j \in DOMAIN returned : returned[j] # mRecvQueue[k]
    /\ mAmount >= AdmittedBytes(mRecvQueue)

\* A push was turned away for lack of room while a message stayed queued.
C8_Witness ==
    /\ last.op = "incoming"
    /\ "reject" \in last.fx
    /\ mRecvQueue # <<>>
    /\ mAmount + Len(RtcpBytes) > RECV_QUEUE_LIMIT
    /\ mAmount < RECV_QUEUE_LIMIT

\* C9: a peek() that returns a value of a message that is still
\* queued leaves the queue, its amount and the content of that message alone.
C9_PeekNonDestructive ==
    [][(last' # last /\ last'.op = "peek" /\ last'.ret = "value"
            /\ InQueue(last'.msg)) =>
           /\ UNCHANGED <<mRecvQueue, mAmount>>
           /\ heap'[last'.msg] = heap[last'.msg]
      ]_vars

\* The identities of a sequence of messages.
IdsOf(ms) == [k \in DOMAIN ms |-> ms[k].id]

\* C10: the messages receive() has taken are, in order, the first admitted
\* ones, each once, and the queue holds the rest in admission order; a
\* receive() that returns a value returns the message as admitted; a receive()
\* on an empty queue returns no value and one on a non-empty queue its front.
C10_ReceiveFifoOnce ==
    /\ [](/\ \A j, k \in DOMAIN admitted : admitted[j].id = admitted[k].id => j = k
          /\ Len(returned) <= Len(admitted)
          /\ returned = SubSeq(IdsOf(admitted), 1, Len(returned))
          /\ mRecvQueue = SubSeq(IdsOf(admitted), Len(returned) + 1, Len(admitted))
          /\ \A f \in Frames :
                (f.op = "receive" /\ f.ret = "value") =>
                    /\ \E k \in DOMAIN returned : returned[k] = f.msg
                    /\ f.val = AdmittedAs(f.msg))
    /\ [][\A f \in Frames' :
            Started(f, "receive") =>
                IF mRecvQueue = <<>>
                THEN f.pc = "idle" /\ f.ret = "nullopt" /\ UNCHANGED queueVars
                ELSE /\ f.pc = "rx_convert"
                     /\ f.msg = Head(mRecvQueue)
                     /\ mRecvQueue' = Tail(mRecvQueue)
                     /\ returned' = Append(returned, f.msg)
      ]_vars

\* Two consumers took the first two admitted messages, a third is queued.
C10_Witness ==
    /\ Len(returned) = 2
    /\ Len(admitted) = 3
    /\ Len(mRecvQueue) = 1
    /\ last.op = "receive"
    /\ last.ret = "value"
    /\ last.val = admitted[2]
    /\ \E t \in AppThreads : th[t].op = "receive" /\ th[t].pc = "rx_convert"

\* C11: availableAmount() is the sum of the admitted byte lengths of the
\* messages that are in the inbound queue, and so 0 when the queue is empty.
C11_AmountIsQueuedBytes ==
    /\ availableAmount = AdmittedBytes(mRecvQueue)
    /\ mRecvQueue = <<>> => availableAmount = 0

\* C12: an isOpen() call answers true exactly when the closed flag was unset
\* when it read it and the transport is live when it reads it, and then both
\* held together at the first read; a call that starts with the flag set
\* answers false, whether or not open(transport) ran after the close().
C12_IsOpenMeansOpen ==
    /\ [](\A f \in Frames :
            (f.op = "isOpen" /\ f.pc = "idle") =>
                /\ f.closedAtStart => f.ret = "false"
                /\ f.ret = "true" => (~f.closedAtStart /\ f.sawTransport = "live")
                /\ f.ret \in {"true", "false"})
    /\ [][(last' # last /\ last'.op = "isOpen") =>
              (last'.ret = "true" <=>
                  (~last'.closedAtStart /\ mDtlsSrtpTransport = "live"))
      ]_vars

\* isOpen() answered false on a closed Track that holds a live transport.
C12_Witness ==
    /\ last.op = "isOpen"
    /\ last.ret = "false"
    /\ last.closedAtStart
    /\ mDtlsSrtpTransport = "live"
    /\ closeReturned

\* The bytes of a mid, and the RTP header fields of a packet (RFC 3550, RFC 8285).
MidBytes(mid) == IF mid = "0" THEN <<48>> ELSE <<49>>
HasExtension(data) == (data[1] \div 16) % 2 = 1
FixedSize(data) == 12 + 4 * (data[1] % 16)
ExtProfile(data) == data[FixedSize(data) + 1] * 256 + data[FixedSize(data) + 2]
ExtWords(data) == data[FixedSize(data) + 3] * 256 + data[FixedSize(data) + 4]
Zeros(n) == [i \in 1..n |-> 0]
CeilWords(n) == (n + 3) \div 4
Element(id, mid) == <<id * 16 + (Len(mid) - 1)>> \o mid
BedeHeader(words) == <<190, 222, words \div 256, words % 256>>

\* A packet without an extension block, tagged as the algorithm describes it.
TaggedFresh(data, id, mid) ==
    LET F == FixedSize(data)
        W == CeilWords(1 + Len(mid))
    IN  <<data[1] + 16>> \o SubSeq(data, 2, F) \o BedeHeader(W) \o Element(id, mid)
            \o Zeros(4 * W - 1 - Len(mid)) \o SubSeq(data, F + 1, Len(data))

\* A packet with a 0xBEDE block of L words, tagged as the algorithm describes it.
TaggedAppend(data, id, mid) ==
    LET F == FixedSize(data)
        L == ExtWords(data)
        W == CeilWords(4 * L + 1 + Len(mid))
    IN  SubSeq(data, 1, F) \o BedeHeader(W) \o SubSeq(data, F + 5, F + 4 + 4 * L)
            \o Element(id, mid) \o Zeros(4 * W - 4 * L - 1 - Len(mid))
            \o SubSeq(data, F + 4 + 4 * L + 1, Len(data))

\* A tagWithMid() call that returned, on an RTP packet that holds at least the
\* fixed header, with an extension id configured when the call read it.
TaggedCall(f) ==
    /\ f.op = "tagWithMid"
    /\ f.pc = "idle"
    /\ f.extId # NoExtId
    /\ ~IsRtcp(f.batch[1])
    /\ Len(f.batch[1].data) >= 12

\* C13: tagWithMid on an RTP packet without an extension block returns the
\* packet with the extension flag set, a 0xBEDE block of ceil((1 + len(mid)) / 4)
\* words right after the fixed header that holds the element (id, mid) and
\* zero padding, and the payload unchanged after the block.
C13_TagFreshPacket ==
    \A f \in Frames :
        (TaggedCall(f) /\ ~HasExtension(f.batch[1].data)) =>
            /\ f.ret = "void"
            /\ f.val.data = TaggedFresh(f.batch[1].data, f.extId, MidBytes(f.desc.mid))
            /\ HasExtension(f.val.data)
            /\ ExtProfile(f.val.data) = 48862

\* C14: tagWithMid on an RTP packet with a 0xBEDE block of L words returns the
\* packet with a block of ceil((4 * L + 1 + len(mid)) / 4) words, not fewer than
\* L, that length stored in the block header, the old elements in place, the
\* element (id, mid) after them, and as many bytes more as the block grew.
C14_TagPacketWithBlock ==
    \A f \in Frames :
        (TaggedCall(f) /\ HasExtension(f.batch[1].data)
                /\ ExtProfile(f.batch[1].data) = 48862) =>
            LET old == f.batch[1].data
                L == ExtWords(old)
                W == CeilWords(4 * L + 1 + Len(MidBytes(f.desc.mid)))
            IN  /\ W >= L
                /\ f.ret = "void"
                /\ Len(f.val.data) = Len(old) + 4 * (W - L)
                /\ ExtWords(f.val.data) = W
                /\ f.val.data = TaggedAppend(old, f.extId, MidBytes(f.desc.mid))

\* C17: the extension id a tagWithMid() call reads is the one id that the
\* description stored at that moment maps to the stream-identifier URI.
C17_IdAndDescriptionTogether ==
    \A f \in Frames :
        (f.op = "tagWithMid" /\ "read" \in f.fx) =>
            SdesIds(f.desc.extMap) = {f.extId}

\* C15: a push of incoming() that the queue turns away is an admission
\* failure like a full queue: the full-queue counter grows by one and the call
\* returns, so that no later packet of the batch is offered to the queue.
C15_BatchAbandonedOnFailure ==
    [][\A t \in Threads :
          (th[t].op = "incoming" /\ th[t].pc = "in_push"
                /\ th'[t] # th[t] /\ mRecvQueue' = mRecvQueue) =>
              /\ queueFull' = queueFull + 1
              /\ last' # last
              /\ last'.call = th[t].call
      ]_vars

\* C16: incoming() fires the available event only for a packet that the
\* queue admitted.
C16_AvailableOnlyWhenAdmitted ==
    [][\A t \in Threads :
          (th[t].op = "incoming" /\ th[t].pc = "in_avail" /\ th'[t] # th[t]
                /\ callbacks.available) =>
              \E k \in DOMAIN admitted : admitted[k].id = Head(th[t].batch).id
      ]_vars

\* C18: once every call has returned, the attached handler was last notified
\* of the description the Track holds now; and a setMediaHandler(h) that
\* attached a handler has notified it before it returned.
C18_HandlerNeverStale ==
    /\ ((\A t \in Threads : th[t].pc = "idle") /\ mMediaHandler # NoHandler) =>
            notified[mMediaHandler] = mMediaDescription
    /\ (last.op = "setMediaHandler" /\ last.handler # NoHandler) =>
            "media" \in last.fx

\* The positions from which a thread invokes application or handler code next:
\* triggerClosed, triggerOpen, triggerAvailable, incomingChain, outgoingChain
\* and the two media() notifications.
CallbackPcs ==
    {"close_trigger", "open_trigger", "in_avail", "in_chain", "out_chain",
     "smh_notify", "sd_notify"}

\* C19: a thread that is about to invoke a callback or the handler holds
\* mMutex neither shared nor exclusive, so the lock it would take when the
\* callback calls back into the Track is not one it already holds.
C19_CallbacksOutsideLock ==
    \A t \in Threads : th[t].pc \in CallbackPcs => th[t].held = "none"

\* A thread is about to notify the handler of a description it stored under
\* the exclusive lock, while another thread holds the lock inside isOpen().
C19_Witness ==
    \E t \in Threads, u \in Threads :
        /\ th[t].pc = "sd_notify"
        /\ th[t].held = "none"
        /\ th[u].held = "shared"

\* The message a transport was handed, with the DSCP value it had before.
Unmarked(m, dscp) == [m EXCEPT !.dscp = dscp]

\* C20: an outgoing() that ran the outbound chain of a handler hands the
\* messages of the batch the chain returned to the transport once each and in
\* batch order: what it has sent and what it still holds are that batch, an
\* empty batch returns false with nothing sent, and every send of the loop
\* hands over the front message and makes its answer the result, whatever the
\* answers before it were; the call returns after the last message.
C20_BatchSentLastResult ==
    /\ [](\A f \in Frames :
            (f.op = "outgoing" /\ f.handler # NoHandler /\ "chain" \in f.fx) =>
                /\ Len(f.sent) <= Len(f.chained)
                /\ \A k \in DOMAIN f.sent :
                      Unmarked(f.sent[k], f.chained[k].dscp) = f.chained[k]
                /\ f.pc = "out_send" =>
                      f.batch = SubSeq(f.chained, Len(f.sent) + 1, Len(f.chained))
                /\ f.ret \in {"true", "false"} /\ f.pc = "idle" =>
                      /\ Len(f.sent) = Len(f.chained)
                      /\ f.chained = <<>> => f.ret = "false"
                      /\ f.chained # <<>> =>
                            f.ret = IF f.ok THEN "true" ELSE "false")
    /\ [][\A t \in Threads :
            (th[t].op = "outgoing" /\ th[t].pc = "out_send"
                  /\ th[t].handler # NoHandler /\ th'[t] # th[t] /\ HasTransport) =>
                LET f == IF Len(th[t].batch) = 1 THEN last' ELSE th'[t]
                IN  /\ f.call = th[t].call
                    /\ f.sent = Append(th[t].sent, Marked(Head(th[t].batch)))
                    /\ f.batch = Tail(th[t].batch)
                    /\ f.ret = IF f.ok THEN "true" ELSE "false"
                    /\ (last' # last) = (Len(th[t].batch) = 1)
         ]_vars

\* The first of two sends of a batch has failed and the second one is next.
C20_Witness ==
    \E t \in Threads :
        /\ th[t].op = "outgoing"
        /\ th[t].handler # NoHandler
        /\ th[t].pc = "out_send"
        /\ Len(th[t].chained) = 2
        /\ Len(th[t].sent) = 1
        /\ th[t].ret = "false"
        /\ HasTransport

====
